---- MODULE Spec2Model ----
(***************************************************************************)
(* A model of node-sharepoint-list-manager: the page walker (getAllItems), *)
(* the retry policy installed on the Axios instance (shouldRetry), the     *)
(* request primitive (callSharePointODATA), the single-record operations   *)
(* and the upsert orchestration, as implemented                            *)
(* by ListClient (lib/sharepoint/BaseClient.js) and by the function        *)
(* library lib/sharepoint.js.                                              *)
(*                                                                         *)
(* Each component has its own specification over the shared variables:     *)
(*   SpecWalk   - getAllItems against a pagination stub                    *)
(*   SpecRetry  - one logical call under the shouldRetry policy            *)
(*   SpecOps    - one ListClient or lib operation against a list server    *)
(*   SpecBulk   - lib/sharepoint.js upsertItems fan-out (SpecBulkFair: with *)
(*                every response arriving)                                 *)
(*   SpecOData  - one invocation of callSharePointODATA against an HTTP     *)
(*                client                                                   *)
(*   SpecReads  - the read operations of ListClient, with or without the   *)
(*                X-RequestDigest token                                    *)
(*   SpecRecords - the operations that take caller-supplied records        *)
(*   SpecUpsertTwice - two upsertItem calls in sequence on one context     *)
(*   SpecSession - getContextInfo and the mutating operations, two calls   *)
(*                in sequence on one ListClient context                    *)
(*   SpecWalkTwice - two getAllItems walks with one query descriptor       *)
(* SpecRetryFair is SpecRetry with every request answered; SpecWalkFair is *)
(* SpecWalk with every page request settling.                              *)
(***************************************************************************)
EXTENDS Integers, Sequences, FiniteSets, TLC

(***************************************************************************)
(* Bounds of the model.                                                    *)
(***************************************************************************)
MaxPages == 3
MaxPageLen == 2

\* JavaScript null (let lastId = null), also used for "no value yet".
Null == 0

\* The kinds of failure a (retry-wrapped) request can end with.
TransportErrors == {"NoResponseError", "ResponseError"}


VARIABLES
  \* ---- page walker (getAllItems) ----
  wImpl,        \* "ListClient" or "lib": which getAllItems runs
  pages,        \* the stub's script: a sequence of pages, each a sequence of record IDs
  served,       \* the stub's log: what it answered to each request ("ok" or an error)
  wpc,          \* "idle", "awaiting" (one getItems in flight), "resolved", "rejected"
  wrequests,    \* the page requests issued so far: the Custom cursor of each
  allrecords,   \* the accumulator
  lastId,       \* the last derived cursor id
  custom,       \* filter.Custom / query.Custom: the cursor of the private copy
  wresult,      \* the value the promise resolved with (results array)
  werror,       \* the error the promise rejected with
  wsettles,     \* number of resolve/reject calls made on the promise
  wdescriptor,   \* the caller's query descriptor object, as it is now
  wfirst        \* the requests of the first walk, once a second one has begun

walkVars == <<wImpl, pages, served, wpc, wrequests, allrecords, lastId, custom,
              wresult, werror, wsettles, wdescriptor, wfirst>>

VARIABLES
  raxRetry,             \* cfg.retry
  raxNoResponseRetries, \* cfg.noResponseRetries
  currentRetryAttempt,  \* cfg.currentRetryAttempt
  opMethod,             \* err.config.method: "get" or "post"
  opErr,                \* the failure the operation produces when it fails
  opAlways,             \* TRUE: the operation fails every time
  opK,                  \* otherwise it fails opK times and then succeeds
  invocations,          \* how many times the operation was invoked
  rpc,                  \* "idle", "request", "error", "succeeded", "surfaced"
  rerror                \* the error finally surfaced to the caller

retryVars == <<raxRetry, raxNoResponseRetries, currentRetryAttempt, opMethod,
               opErr, opAlways, opK, invocations, rpc, rerror>>

VARIABLES
  digest,      \* authheaders['X-RequestDigest']: "absent", "null" or "token"
  list,        \* the records the server holds
  impl,        \* "ListClient" or "lib": whose operation was called
  op,          \* the operation called
  citem,       \* the caller's record (for deleteItemById its ID is the itemid)
  citemNil,    \* TRUE when the caller passed null/undefined instead
  cobject,     \* the caller's record object as it is now
  cquery,      \* the query descriptor the caller passed (getItems)
  clookup,     \* the lookup argument of upsertItem
  cpc,         \* "idle", "call", "lookup", "adding", "updating", "done"
  netlog,      \* the requests handed to the HTTP client, in order
  lookupResp,  \* the answer to the upsert's lookup fetch, once received
  cout,        \* the outcome: state, error and value
  csettles     \* number of resolve/reject/throw events of the call

serverVars == <<digest, list>>

callVars == <<impl, op, citem, citemNil, cobject, cquery, clookup, cpc, netlog,
              lookupResp, cout, csettles>>

opsVars == <<serverVars, callVars>>

VARIABLES
  prev         \* the call that came before the present one on the same context

seqVars == <<prev>>

VARIABLES
  \* ---- lib upsertItems: one upsertItem per record, all started at once ----
  bitems,      \* the records of the batch
  bobjects,    \* the caller's record objects as they are now
  blookup,     \* the lookupitems argument
  bpc,         \* per record: "lookup", "adding", "updating", "resolved", "rejected"
  berr,        \* per record: the error its upsertItem rejected with
  blog,        \* per record: the requests handed to the HTTP client for it
  batch,       \* Promise.all: "idle", "pending", "resolved", "rejected"
  batchErr,    \* the error Promise.all rejected with
  batchAt      \* how many requests had been issued when Promise.all settled

bulkVars == <<bitems, bobjects, blookup, bpc, berr, blog, batch, batchErr,
              batchAt>>

VARIABLES
  \* ---- callSharePointODATA: one invocation of the request primitive ----
  oImpl,         \* "ListClient" or "lib": whose callSharePointODATA runs
  axiosInstance, \* the client argument: "client", "undefined" or "null"
  authheaders,   \* sharepoint.authheaders: header name -> value
  correlationid, \* sharepoint.correlationid: "undefined", "" or an id
  sprequest,     \* the request descriptor: headers and method
  sent,          \* the axiosConfig of every request handed to the client
  opc,           \* "idle", "inflight", "done"
  httpResult,    \* what the client's promise settled with: a response or an error
  oout,          \* the returned promise: state, error and value
  ounhandled,    \* TRUE once a handler of the primitive has thrown
  libArg         \* the client argument of the lib operation that made the
                 \* request: "client", "undefined" (left out), or "none"
                 \* when the primitive was called directly

odataVars == <<oImpl, axiosInstance, authheaders, correlationid, sprequest,
               sent, opc, httpResult, oout, ounhandled, libArg>>

vars == <<walkVars, retryVars, opsVars, seqVars, bulkVars, odataVars>>

\* What the actions of one component leave alone.
notWalk == <<retryVars, opsVars, seqVars, bulkVars, odataVars>>
notRetry == <<walkVars, opsVars, seqVars, bulkVars, odataVars>>
notOps == <<walkVars, retryVars, seqVars, bulkVars, odataVars>>
notBulk == <<walkVars, retryVars, callVars, seqVars, odataVars>>
notOData == <<walkVars, retryVars, opsVars, seqVars, bulkVars>>
notCalls == <<walkVars, retryVars, bulkVars, odataVars>>

(***************************************************************************)
(* Pagination stub.                                                        *)
(***************************************************************************)
RECURSIVE SumLens(_)
SumLens(lens) ==
  IF lens = <<>> THEN 0 ELSE lens[1] + SumLens(Tail(lens))

\* Page i of a stub whose pages have the lengths lens: records are numbered
\* consecutively, so record IDs are distinct and ascending (server-return order).
PageOf(lens, i) ==
  LET before == SumLens(SubSeq(lens, 1, i - 1))
  IN  [j \in 1..lens[i] |-> before + j]

MkPages(lens) == [i \in 1..Len(lens) |-> PageOf(lens, i)]

PageScripts ==
  UNION {[1..n -> 0..MaxPageLen] : n \in 1..MaxPages}

RECURSIVE Concat(_)
Concat(ps) ==
  IF ps = <<>> THEN <<>> ELSE ps[1] \o Concat(Tail(ps))

InitWalk ==
  /\ wImpl \in {"ListClient", "lib"}
  /\ pages \in {MkPages(l) : l \in PageScripts}
  /\ served = <<>>
  /\ wpc = "idle"
  /\ wrequests = <<>>
  /\ allrecords = <<>>
  /\ lastId = Null
  /\ custom = Null
  /\ wresult = <<>>
  /\ werror = "none"
  /\ wsettles = 0
  /\ wdescriptor = [Custom |-> Null]
  /\ wfirst = <<>>

(***************************************************************************)
(* getAllItems: the call runs synchronously up to its first await, which   *)
(* issues the first getItems with the cursor-free private copy.            *)
(***************************************************************************)
getAllItems ==
  /\ wpc = "idle"
  /\ cpc = "idle"       \* the model follows one call of the client at a time
  /\ wpc' = "awaiting"
  /\ custom' = wdescriptor.Custom      \* filter = _.omit(itemFilter, ['custom'])
  /\ wrequests' = Append(wrequests, wdescriptor.Custom)
  /\ UNCHANGED <<wdescriptor, wfirst>>
  /\ UNCHANGED <<wImpl, pages, served, allrecords, lastId, wresult, werror,
                 wsettles>>
  /\ UNCHANGED notWalk

\* Faulty variant: on a failed page the walk resolves with what it has.
getAllItemsCatch_Partial(err) ==
  /\ wpc = "awaiting"
  /\ served' = Append(served, err)
  /\ wpc' = "resolved"
  /\ wresult' = allrecords
  /\ wsettles' = wsettles + 1
  /\ UNCHANGED <<wdescriptor, wfirst>>
  /\ UNCHANGED <<wImpl, pages, wrequests, allrecords, lastId, custom, werror>>
  /\ UNCHANGED notWalk

\* Faulty variant: a failed page is rejected but the loop goes on to the
\* next request.
getAllItemsCatch_KeepsGoing(err) ==
  /\ wpc = "awaiting"
  /\ served' = Append(served, err)
  /\ wrequests' = Append(wrequests, custom)
  /\ werror' = err
  /\ wsettles' = wsettles + 1
  /\ UNCHANGED <<wdescriptor, wfirst>>
  /\ UNCHANGED <<wImpl, pages, wpc, allrecords, lastId, custom, wresult>>
  /\ UNCHANGED notWalk

\* await getItems(filter) throws: keepGoing = false; reject(err); break.
getAllItemsCatch(err) ==
  /\ wpc = "awaiting"
  /\ served' = Append(served, err)
  /\ wpc' = "rejected"
  /\ werror' = err
  /\ wsettles' = wsettles + 1
  /\ UNCHANGED <<wdescriptor, wfirst>>
  /\ UNCHANGED <<wImpl, pages, wrequests, allrecords, lastId, custom, wresult>>
  /\ UNCHANGED notWalk

\* Faulty variant: the cursor is written onto the caller's descriptor (the
\* walk works on the object it was given).
descriptorAfterCursor_Shared(descriptor, cursor) ==
  [descriptor EXCEPT !.Custom = cursor]

\* The caller's descriptor after filter.Custom = `$skiptoken=...`: filter is
\* the new object _.omit(itemFilter, ['custom']) built, so the descriptor is
\* only read.
descriptorAfterCursor(descriptor, cursor) == descriptor

\* Faulty variant: the loop goes on whatever the page signalled.
keepGoing_Always(morerecords) == TRUE

\* if (morerecords) { ...; keepGoing = true } else { keepGoing = false; ... }
keepGoing(morerecords) == morerecords

\* Faulty variant: the new page is put in front of the accumulator.
concat_Prepends(acc, records) == records \o acc

\* allrecords.concat(...records)
concat(acc, records) == acc \o records

\* await getItems(filter) returns page number Len(served)+1 of the stub; the
\* loop body runs to the next await (or to resolve / the outer catch).
getAllItemsPage ==
  /\ wpc = "awaiting"
  /\ Len(served) < Len(pages)
  /\ LET n == Len(served) + 1
         records == pages[n]
         countRecords == Len(records)
         morerecords == n < Len(pages)          \* the stub sets d.__next
         acc == IF countRecords > 0 THEN concat(allrecords, records)
                ELSE allrecords
     IN  /\ served' = Append(served, "ok")
         /\ IF keepGoing(morerecords)
            THEN IF acc = <<>>
                 THEN \* allrecords.pop() is undefined: reading .ID throws a
                      \* TypeError, caught by the outer catch: reject(error)
                      /\ wpc' = "rejected"
                      /\ werror' = "TypeError"
                      /\ wsettles' = wsettles + 1
                      /\ allrecords' = acc
                      /\ UNCHANGED <<lastId, custom, wrequests, wresult>>
                 ELSE \* lastId = allrecords.pop().ID; Custom = skiptoken(lastId)
                      /\ lastId' = acc[Len(acc)]
                      /\ allrecords' = SubSeq(acc, 1, Len(acc) - 1)
                      /\ custom' = acc[Len(acc)]
                      /\ wrequests' = Append(wrequests, acc[Len(acc)])
                      /\ wpc' = "awaiting"
                      /\ UNCHANGED <<wresult, werror, wsettles>>
            ELSE /\ wpc' = "resolved"
                 /\ wresult' = acc
                 /\ allrecords' = acc
                 /\ wsettles' = wsettles + 1
                 /\ UNCHANGED <<lastId, custom, wrequests, werror>>
  /\ LET n == Len(served) + 1
         acc == IF Len(pages[n]) > 0 THEN concat(allrecords, pages[n])
                ELSE allrecords
     IN  wdescriptor' = IF keepGoing(n < Len(pages)) /\ acc # <<>>
                        THEN descriptorAfterCursor(wdescriptor, acc[Len(acc)])
                        ELSE wdescriptor
  /\ UNCHANGED <<wImpl, pages, wfirst>>
  /\ UNCHANGED notWalk

\* The caller runs getAllItems again with the descriptor object of the
\* settled first walk; the stub serves its pages from the start.
getAllItemsAgain ==
  /\ wpc \in {"resolved", "rejected"}
  /\ wfirst = <<>>
  /\ wfirst' = wrequests
  /\ served' = <<>>
  /\ allrecords' = <<>>
  /\ lastId' = Null
  /\ custom' = wdescriptor.Custom
  /\ wrequests' = <<wdescriptor.Custom>>
  /\ wpc' = "awaiting"
  /\ wresult' = <<>>
  /\ werror' = "none"
  /\ wsettles' = 0
  /\ UNCHANGED <<wImpl, pages, wdescriptor>>
  /\ UNCHANGED notWalk

NextWalk ==
  \/ getAllItems
  \/ getAllItemsPage
  \/ \E err \in TransportErrors : getAllItemsCatch(err)

(***************************************************************************)
(* C1: whenever getAllItems resolves (the stub returned its pages and      *)
(* then signalled completion), the result is exactly the concatenation of  *)
(* the pages' records in page order: its length is the sum of the page     *)
(* lengths and no record is lost, the last record of a non-final page      *)
(* included.                                                               *)
(***************************************************************************)
C1_ConcatenationOfAllPages ==
  wpc = "resolved" =>
    /\ wresult = Concat(pages)
    /\ Len(wresult) = SumLens([i \in DOMAIN pages |-> Len(pages[i])])

MaxRetries == 4
MaxFailures == 4

\* The shipped retry configuration (config.rax).
DefaultRetry == 3
DefaultNoResponseRetries == 2


\* A failure as the interceptor sees it: whether a server response came with
\* it, the response's status, and whether its message says the response was
\* not JSON.
Err503 == [response |-> TRUE, status |-> 503, nonJson |-> FALSE]
Err404 == [response |-> TRUE, status |-> 404, nonJson |-> FALSE]
ErrNoResponse == [response |-> FALSE, status |-> 0, nonJson |-> FALSE]
ErrNotJson == [response |-> TRUE, status |-> 200, nonJson |-> TRUE]
NoErr == [response |-> FALSE, status |-> 0 - 1, nonJson |-> FALSE]

Failures == {Err503, Err404, ErrNoResponse, ErrNotJson}

\* retry-axios' defaults, which options.rax does not override.
statusCodesToRetry == {<<100, 199>>, <<429, 429>>, <<500, 599>>}
httpMethodsToRetry == {"get", "head", "put", "options", "delete"}

\* rax.shouldRetryRequest(err): the generic rule of retry-axios.
shouldRetryRequest(err, method, attempt, retry, noResponseRetries) ==
  /\ retry # 0
  /\ ~(~err.response /\ attempt >= noResponseRetries)
  /\ method \in httpMethodsToRetry
  /\ (err.response /\ err.status # 0) =>
        \E r \in statusCodesToRetry : err.status >= r[1] /\ err.status <= r[2]
  /\ ~(attempt >= retry)

\* Faulty variant: an off-by-one in the first cap.
shouldRetry_OffByOne(err, method, attempt, retry, noResponseRetries) ==
  IF attempt > retry THEN FALSE
  ELSE IF attempt >= noResponseRetries THEN FALSE
  ELSE IF err.nonJson THEN TRUE
  ELSE shouldRetryRequest(err, method, attempt, retry, noResponseRetries)

\* Faulty variant: no rule for responses that are not JSON.
shouldRetry_GenericOnly(err, method, attempt, retry, noResponseRetries) ==
  IF attempt >= retry THEN FALSE
  ELSE IF attempt >= noResponseRetries THEN FALSE
  ELSE shouldRetryRequest(err, method, attempt, retry, noResponseRetries)

\* shouldRetry: (err) => ... of raxConfig.
shouldRetry(err, method, attempt, retry, noResponseRetries) ==
  IF attempt >= retry THEN FALSE
  ELSE IF attempt >= noResponseRetries THEN FALSE
  ELSE IF err.nonJson THEN TRUE
  ELSE shouldRetryRequest(err, method, attempt, retry, noResponseRetries)

InitRetry ==
  /\ raxRetry \in 0..MaxRetries
  /\ raxNoResponseRetries \in 0..MaxRetries
  /\ currentRetryAttempt = 0
  /\ opMethod \in {"get", "post"}
  /\ opErr \in Failures
  /\ opAlways \in BOOLEAN
  /\ opK \in IF opAlways THEN {0} ELSE 0..MaxFailures
  /\ invocations = 0
  /\ rpc = "idle"
  /\ rerror = NoErr

\* The caller issues the logical call: axiosInstance.request(config).
raxCall ==
  /\ rpc = "idle"
  /\ rpc' = "request"
  /\ UNCHANGED <<raxRetry, raxNoResponseRetries, currentRetryAttempt, opMethod,
                 opErr, opAlways, opK, invocations, rerror>>
  /\ UNCHANGED notRetry

\* One invocation of the operation: it fails while its script says so.
raxInvoke ==
  /\ rpc = "request"
  /\ invocations' = invocations + 1
  /\ rpc' = IF opAlways \/ invocations < opK THEN "error" ELSE "succeeded"
  /\ UNCHANGED <<raxRetry, raxNoResponseRetries, currentRetryAttempt, opMethod,
                 opErr, opAlways, opK, rerror>>
  /\ UNCHANGED notRetry

\* The error interceptor: ask shouldRetry; either count the attempt and
\* re-issue the request, or reject with the error.
raxOnError ==
  /\ rpc = "error"
  /\ IF shouldRetry(opErr, opMethod, currentRetryAttempt, raxRetry,
                    raxNoResponseRetries)
     THEN /\ currentRetryAttempt' = currentRetryAttempt + 1
          /\ rpc' = "request"
          /\ UNCHANGED rerror
     ELSE /\ rpc' = "surfaced"
          /\ rerror' = opErr
          /\ UNCHANGED currentRetryAttempt
  /\ UNCHANGED <<raxRetry, raxNoResponseRetries, opMethod, opErr, opAlways,
                 opK, invocations>>
  /\ UNCHANGED notRetry

NextRetry ==
  \/ raxCall
  \/ raxInvoke
  \/ raxOnError

\* A failure the generic rule retries: a retryable method and either no
\* response or a response with a status of statusCodesToRetry.
Retryable(err, method) ==
  /\ method \in httpMethodsToRetry
  /\ ~err.nonJson
  /\ err.response =>
        \E r \in statusCodesToRetry : err.status >= r[1] /\ err.status <= r[2]

(***************************************************************************)
(* C3: an operation that fails k times with a retryable failure and then   *)
(* succeeds, under maxRetries >= k, ends in success after exactly k+1      *)
(* invocations, whatever noResponseRetries is and whether or not the       *)
(* failure carries a response.                                             *)
(***************************************************************************)
C3_FailKThenSucceed ==
  (/\ ~opAlways
   /\ opK <= raxRetry
   /\ Retryable(opErr, opMethod)
   /\ rpc \in {"succeeded", "surfaced"})
    => (rpc = "succeeded" /\ invocations = opK + 1)

(***************************************************************************)
(* C4: with maxRetries = k an operation that always fails with a retryable *)
(* failure carrying a response is invoked exactly k+1 times and its error  *)
(* is surfaced, the shipped defaults retry = 3, noResponseRetries = 2      *)
(* included.                                                               *)
(***************************************************************************)
C4_AlwaysFailingInvokedKPlusOne ==
  (/\ opAlways
   /\ opErr = Err503
   /\ opMethod = "get"
   /\ rpc = "surfaced")
    => (invocations = raxRetry + 1 /\ rerror = opErr)

(***************************************************************************)
(* Records, filters and the list server.                                   *)
(***************************************************************************)
\* A field a record does not have (JavaScript undefined).
Absent == -1

MaxId == 2

Fields == {"ID", "Title", "Desc"}
TitleValues == {1, 2}

\* Caller-supplied candidate records: the ID may be missing, null or set.
Items ==
  [ID : {Absent, Null} \cup 1..MaxId, Title : TitleValues, Desc : {Absent, 3}]

NoItem == [ID |-> Absent, Title |-> Absent, Desc |-> Absent]

\* The lists the server can hold at the start: distinct IDs, any titles.
InitialLists ==
  UNION {{{[ID |-> i, Title |-> t[i], Desc |-> 4] : i \in ids} :
            t \in [ids -> TitleValues]} : ids \in SUBSET (1..MaxId)}

\* The lookup argument: undefined (the parameter's default applies), null,
\* or an array of field names in which "null" stands for a null entry.
Lookups ==
  {[kind |-> "undefined", names |-> <<>>], [kind |-> "null", names |-> <<>>]}
  \cup {[kind |-> "array", names |-> n] :
          n \in {<<>>, <<"ID">>, <<"Title">>, <<"null">>, <<"null", "Title">>}}

\* Faulty variant of omit: the ID stays in the body.
omit_KeepsID(item) == item

\* _.omit(item, ['ID'])
omit(item) == [item EXCEPT !.ID = Absent]

\* _.merge({}, { ID: matchId }, item): the candidate's own ID, null included,
\* overrides the matched one; only an undefined ID leaves it in place.
merge(matchId, item) ==
  IF item.ID = Absent THEN [item EXCEPT !.ID = matchId] ELSE item

\* Faulty variant: the ID is deleted from the caller's object.
itemAfterOmit_Deleted(item) == [item EXCEPT !.ID = Absent]

\* The argument object after _.omit(item, ['ID']): omit builds a new object.
itemAfterOmit(item) == item

\* Faulty variant: the matched ID is merged into the caller's object.
itemAfterMerge_IntoItem(matchId, item) == [item EXCEPT !.ID = matchId]

\* The item after _.merge({}, { ID: matchId }, item): the destination is the
\* new object {}, the sources are only read.
itemAfterMerge(matchId, item) == item

\* _buildFilter / buildFilter: the set of (field, value) equalities; the
\* empty set is the empty filter string.
buildFilter(item, lookups) ==
  IF Len(lookups) = 0 THEN {}
  ELSE {<<lookups[i], item[lookups[i]]>> :
          i \in {j \in DOMAIN lookups : lookups[j] # "null"}}

\* const lookupArray = _.isNil(lookup) ? [] : _.castArray(lookup), with
\* ListClient.upsertItem's default lookup = 'ID'.
lookupArray(lookup) ==
  IF lookup.kind = "undefined" THEN <<"ID">>
  ELSE IF lookup.kind = "null" THEN <<>>
  ELSE lookup.names

\* The filter of the lookup fetch.  ListClient.upsertItem builds it from
\* lookupArray; lib upsertItem merges the query over the default
\* "ID eq item.ID", and upsertItems passes { Filter: buildFilter(..) }.
lookupFilter(i, item, lookup) ==
  IF i = "ListClient" THEN buildFilter(item, lookupArray(lookup))
  ELSE IF lookup.kind = "undefined" THEN {<<"ID", item.ID>>}
  ELSE buildFilter(item, IF lookup.kind = "null" THEN <<>> ELSE lookup.names)

Matches(rec, filter) == \A p \in filter : rec[p[1]] = p[2]

\* The server's answer to a Top: 1 query: the first matching record.
QueryTop1(lst, filter) ==
  LET m == {r \in lst : Matches(r, filter)}
  IN  IF m = {} THEN <<>>
      ELSE <<CHOOSE r \in m : \A q \in m : r.ID <= q.ID>>

ListIds(lst) == {r.ID : r \in lst}

NextId(lst) ==
  IF lst = {} THEN 1
  ELSE 1 + (CHOOSE i \in ListIds(lst) : \A j \in ListIds(lst) : j <= i)

ServerAdd(lst, body) ==
  lst \cup {[ID |-> NextId(lst), Title |-> body.Title, Desc |-> body.Desc]}

ServerUpdate(lst, id, body) ==
  {IF r.ID = id
     THEN [ID |-> r.ID,
           Title |-> IF body.Title = Absent THEN r.Title ELSE body.Title,
           Desc |-> IF body.Desc = Absent THEN r.Desc ELSE body.Desc]
     ELSE r : r \in lst}

ServerDelete(lst, id) == {r \in lst : r.ID # id}

\* A request as handed to the HTTP client.
Request(kind, id, body, filter) ==
  [op |-> kind, id |-> id, body |-> body, filter |-> filter, select |-> <<>>]

\* A query descriptor: its Filter (a set of equalities) and its Select (a
\* list of field names; the empty list also stands for no Select at all).
Selects ==
  {<<>>, <<"Title">>, <<"ID">>, <<"Title", "Desc">>, <<"ID", "Title">>}

NoQuery == [Filter |-> {}, Select |-> <<>>]

\* An element of the Select array of an issued query: a field name, or an
\* array of field names.
SelectName(f) == [isArray |-> FALSE, name |-> f, items |-> <<>>]
SelectArray(fs) == [isArray |-> TRUE, name |-> "", items |-> fs]

MutatingRequests == {"add", "update", "delete", "createList"}

\* Faulty variant of the digest check: only a missing header counts as unset.
digestIsNil_UndefinedOnly(d) == d = "absent"

\* _.isNil(authheaders['X-RequestDigest'])
digestIsNil(d) == d \in {"absent", "null"}

(***************************************************************************)
(* Single-record operations and upsertItem, of ListClient and of           *)
(* lib/sharepoint.js, one call against the list server.                    *)
(***************************************************************************)

Pending == [state |-> "pending", error |-> "none", value |-> "none"]
Outcome(st, err, val) == [state |-> st, error |-> err, value |-> val]
DefaultLookup == [kind |-> "undefined", names |-> <<>>]

\* No call came before the present one.
NoPrev ==
  [impl |-> "none", op |-> "none",
   item |-> [ID |-> Absent, Title |-> Absent, Desc |-> Absent],
   lookup |-> DefaultLookup, log |-> <<>>,
   resp |-> [got |-> FALSE, results |-> <<>>, error |-> "none"],
   out |-> Pending]

InitOps ==
  /\ digest \in {"absent", "null", "token"}
  /\ list \in InitialLists
  /\ impl = "none"
  /\ op = "none"
  /\ citem = NoItem
  /\ citemNil = FALSE
  /\ cobject = NoItem
  /\ cquery = NoQuery
  /\ clookup = DefaultLookup
  /\ cpc = "idle"
  /\ netlog = <<>>
  /\ lookupResp = [got |-> FALSE, results |-> <<>>, error |-> "none"]
  /\ cout = Pending
  /\ csettles = 0
  /\ prev = NoPrev

\* The caller's arguments: a record, or null in place of the record.
Args == [item : Items, nil : {FALSE}] \cup {[item |-> NoItem, nil |-> TRUE]}

CalledWith(i, o, a, l, q) ==
  /\ cpc = "idle"
  /\ wpc = "idle"       \* the model follows one call of the client at a time
  /\ batch = "idle"
  /\ impl' = i
  /\ op' = o
  /\ citem' = a.item
  /\ citemNil' = a.nil
  /\ clookup' = l
  /\ cquery' = q
  /\ UNCHANGED <<digest, list, lookupResp>>
  /\ UNCHANGED notOps

Called(i, o, a, l) == CalledWith(i, o, a, l, NoQuery)

\* The call ends before any request: a throw or a rejection.
Fails(st, err) ==
  /\ cout' = Outcome(st, err, "none")
  /\ csettles' = csettles + 1
  /\ cpc' = "done"
  /\ UNCHANGED netlog

\* callSharePointODATA(sprequest): one request handed to the HTTP client.
Issues(req, pc) ==
  /\ netlog' = Append(netlog, req)
  /\ cpc' = pc
  /\ UNCHANGED <<cout, csettles>>

\* ListClient.addItem(item) / lib addItem(options, item).
addItem(i, a) ==
  /\ Called(i, "addItem", a, DefaultLookup)
  /\ IF i = "ListClient" /\ digestIsNil(digest)
     THEN Fails("thrown", "AuthorizationError")
     ELSE IF i = "ListClient" /\ a.nil
     THEN Fails("thrown", "ValidationError")
     ELSE Issues(Request("add", Absent, a.item, {}), "call")
  /\ cobject' = a.item

\* ListClient.updateItem(item) / lib updateItem(options, item).
updateItem(i, a) ==
  /\ Called(i, "updateItem", a, DefaultLookup)
  /\ IF i = "ListClient" /\ digestIsNil(digest)
     THEN Fails("thrown", "AuthorizationError")
     ELSE IF a.nil
     THEN Fails("thrown", IF i = "ListClient" THEN "ValidationError"
                          ELSE "TypeError")
     ELSE IF a.item.ID \in {Absent, Null}
     THEN Fails("thrown", "ValidationError")
     ELSE Issues(Request("update", a.item.ID, omit(a.item), {}), "call")
  /\ cobject' = IF (i = "ListClient" /\ digestIsNil(digest)) \/ a.nil
                    \/ a.item.ID \in {Absent, Null}
                 THEN a.item
                 ELSE itemAfterOmit(a.item)

\* ListClient.deleteItemById(itemid): the itemid is a.item.ID.
deleteItemById(a) ==
  /\ Called("ListClient", "deleteItemById", a, DefaultLookup)
  /\ IF digestIsNil(digest)
     THEN Fails("thrown", "AuthorizationError")
     ELSE IF a.item.ID \in {Absent, Null}
     THEN Fails("thrown", "ValidationError")
     ELSE Issues(Request("delete", a.item.ID, NoItem, {}), "call")
  /\ cobject' = a.item

\* ListClient.createList().
createList ==
  /\ Called("ListClient", "createList", [item |-> NoItem, nil |-> TRUE],
            DefaultLookup)
  /\ IF digestIsNil(digest)
     THEN Fails("thrown", "AuthorizationError")
     ELSE Issues(Request("createList", Absent, NoItem, {}), "call")
  /\ cobject' = NoItem

\* Whether the server carries out the request: a mutation needs the
\* write-authorization token, an update or delete an existing record.
ServerAccepts(req) ==
  /\ req.op \in MutatingRequests => digest = "token"
  /\ req.op \in {"update", "delete"} => req.id \in ListIds(list)

ServerApply(lst, req) ==
  IF req.op = "add" THEN ServerAdd(lst, req.body)
  ELSE IF req.op = "update" THEN ServerUpdate(lst, req.id, req.body)
  ELSE IF req.op = "delete" THEN ServerDelete(lst, req.id)
  ELSE lst

Last(seq) == seq[Len(seq)]

\* The request of a plain operation succeeds: resolve(response).
callResolved ==
  /\ cpc = "call"
  /\ ServerAccepts(Last(netlog))
  /\ list' = ServerApply(list, Last(netlog))
  /\ cout' = Outcome("resolved", "none", "response")
  /\ csettles' = csettles + 1
  /\ cpc' = "done"
  /\ UNCHANGED <<digest, impl, op, citem, citemNil, cobject, cquery, clookup, netlog, lookupResp>>
  /\ UNCHANGED notOps

\* The request of a plain operation fails: reject(err).
callRejected(err) ==
  /\ cpc = "call"
  /\ cout' = Outcome("rejected", err, "none")
  /\ csettles' = csettles + 1
  /\ cpc' = "done"
  /\ UNCHANGED <<digest, list, impl, op, citem, citemNil, cobject, cquery, clookup, netlog,
                 lookupResp>>
  /\ UNCHANGED notOps

\* The call up to its first await: the token check (ListClient only; the
\* function is async, so the throw is a rejection), then the lookup fetch.
upsertItem(i, a, l) ==
  /\ Called(i, "upsertItem", [item |-> a, nil |-> FALSE], l)
  /\ IF i = "ListClient" /\ digestIsNil(digest)
     THEN Fails("rejected", "AuthorizationError")
     ELSE Issues(Request("getItems", Absent, NoItem, lookupFilter(i, a, l)),
                 "lookup")
  /\ cobject' = a

\* The lookup fetch resolved: dispatch to addItem or to updateItem.
upsertItemLookup ==
  /\ cpc = "lookup"
  /\ LET results == QueryTop1(list, netlog[1].filter)
     IN  /\ lookupResp' = [got |-> TRUE, results |-> results,
                             error |-> "none"]
         /\ IF Len(results) = 0
            THEN Issues(Request("add", Absent, omit(citem), {}), "adding")
            ELSE LET updateitem == merge(results[1].ID, citem)
                 IN  IF updateitem.ID \in {Absent, Null}
                     THEN \* updateItem throws 'No ID specified'
                          Fails("rejected", "ValidationError")
                     ELSE Issues(Request("update", updateitem.ID,
                                         omit(updateitem), {}), "updating")
         /\ cobject' = IF Len(results) = 0 THEN itemAfterOmit(cobject)
                        ELSE itemAfterMerge(results[1].ID, cobject)
  /\ UNCHANGED <<digest, list, impl, op, citem, citemNil, cquery, clookup>>
  /\ UNCHANGED notOps

\* Faulty variant: a failed lookup is taken for an empty result, and the
\* record is created.
upsertItemLookupFailed_CreatesAnyway(err) ==
  /\ cpc = "lookup"
  /\ lookupResp' = [got |-> FALSE, results |-> <<>>, error |-> err]
  /\ Issues(Request("add", Absent, omit(citem), {}), "adding")
  /\ UNCHANGED <<digest, list, impl, op, citem, citemNil, cobject, cquery, clookup>>
  /\ UNCHANGED notOps

\* The lookup fetch failed: reject(err).
upsertItemLookupFailed(err) ==
  /\ cpc = "lookup"
  /\ lookupResp' = [got |-> FALSE, results |-> <<>>, error |-> err]
  /\ Fails("rejected", err)
  /\ UNCHANGED <<digest, list, impl, op, citem, citemNil, cobject, cquery, clookup>>
  /\ UNCHANGED notOps

\* Faulty variant: after the create the call goes on to the update branch
\* and issues an update.
upsertItemAdded_ThenUpdates ==
  /\ cpc = "adding"
  /\ ServerAccepts(Last(netlog))
  /\ list' = ServerApply(list, Last(netlog))
  /\ netlog' = Append(netlog, Request("update", Null, omit(citem), {}))
  /\ cout' = Outcome("resolved", "none",
                     IF impl = "ListClient" THEN "addResponse" ELSE "undefined")
  /\ csettles' = csettles + 1
  /\ cpc' = "updating"
  /\ UNCHANGED <<digest, impl, op, citem, citemNil, cobject, cquery, clookup, lookupResp>>
  /\ UNCHANGED notOps

\* The create call resolved.  ListClient resolves with addResponse and then
\* falls through to results[0].ID, a TypeError whose reject comes too late;
\* lib upsertItem returns nothing, so it resolves with undefined.
upsertItemAdded ==
  /\ cpc = "adding"
  /\ ServerAccepts(Last(netlog))
  /\ list' = ServerApply(list, Last(netlog))
  /\ cout' = Outcome("resolved", "none",
                     IF impl = "ListClient" THEN "addResponse" ELSE "undefined")
  /\ csettles' = csettles + (IF impl = "ListClient" THEN 2 ELSE 1)
  /\ cpc' = "done"
  /\ UNCHANGED <<digest, impl, op, citem, citemNil, cobject, cquery, clookup, netlog, lookupResp>>
  /\ UNCHANGED notOps

\* The create call failed: reject(addErr) (and, in ListClient, the same
\* fall-through).
upsertItemAddFailed(err) ==
  /\ cpc = "adding"
  /\ cout' = Outcome("rejected", err, "none")
  /\ csettles' = csettles + (IF impl = "ListClient" THEN 2 ELSE 1)
  /\ cpc' = "done"
  /\ UNCHANGED <<digest, list, impl, op, citem, citemNil, cobject, cquery, clookup, netlog,
                 lookupResp>>
  /\ UNCHANGED notOps

\* The update call resolved.
upsertItemUpdated ==
  /\ cpc = "updating"
  /\ ServerAccepts(Last(netlog))
  /\ list' = ServerApply(list, Last(netlog))
  /\ cout' = Outcome("resolved", "none",
                     IF impl = "ListClient" THEN "updateResponse" ELSE "undefined")
  /\ csettles' = csettles + 1
  /\ cpc' = "done"
  /\ UNCHANGED <<digest, impl, op, citem, citemNil, cobject, cquery, clookup, netlog, lookupResp>>
  /\ UNCHANGED notOps

\* The update call failed: reject(updateErr).
upsertItemUpdateFailed(err) ==
  /\ cpc = "updating"
  /\ cout' = Outcome("rejected", err, "none")
  /\ csettles' = csettles + 1
  /\ cpc' = "done"
  /\ UNCHANGED <<digest, list, impl, op, citem, citemNil, cobject, cquery, clookup, netlog,
                 lookupResp>>
  /\ UNCHANGED notOps

(***************************************************************************)
(* Calls in sequence on one context: the caller awaits a call and makes    *)
(* the next one.  The token and the list carry over; the model follows two *)
(* calls.                                                                  *)
(***************************************************************************)
nextCall ==
  /\ cpc = "done"
  /\ prev = NoPrev
  /\ prev' = [impl |-> impl, op |-> op, item |-> citem, lookup |-> clookup,
              log |-> netlog, resp |-> lookupResp, out |-> cout]
  /\ impl' = "none"
  /\ op' = "none"
  /\ citem' = NoItem
  /\ citemNil' = FALSE
  /\ cobject' = NoItem
  /\ cquery' = NoQuery
  /\ clookup' = DefaultLookup
  /\ cpc' = "idle"
  /\ netlog' = <<>>
  /\ lookupResp' = [got |-> FALSE, results |-> <<>>, error |-> "none"]
  /\ cout' = Pending
  /\ csettles' = 0
  /\ UNCHANGED <<digest, list>>
  /\ UNCHANGED notCalls

(***************************************************************************)
(* getContextInfo / init: the context-initialization step.                 *)
(***************************************************************************)
\* What accessSafe(() => response.data.d.GetContextWebInformation
\* .FormDigestValue, null) yields: the digest, or null when the response
\* does not hold one.
FormDigestValues == {"token", "null"}

NoArg == [item |-> NoItem, nil |-> TRUE]

\* BaseClient.getContextInfo(): the request is issued whatever the token is.
getContextInfo ==
  /\ Called("ListClient", "getContextInfo", NoArg, DefaultLookup)
  /\ Issues(Request("contextinfo", Absent, NoItem, {}), "context")
  /\ cobject' = NoItem

\* .then: authheaders['X-RequestDigest'] = FormDigestValue; resolve(response)
getContextInfoResolved(formDigest) ==
  /\ cpc = "context"
  /\ digest' = formDigest
  /\ cout' = Outcome("resolved", "none", "response")
  /\ csettles' = csettles + 1
  /\ cpc' = "done"
  /\ UNCHANGED <<list, impl, op, citem, citemNil, cobject, cquery, clookup,
                 netlog, lookupResp>>
  /\ UNCHANGED notOps

\* Faulty variant: a failed initialization clears the token.
getContextInfoFailed_ClearsToken(err) ==
  /\ cpc = "context"
  /\ digest' = "null"
  /\ cout' = Outcome("rejected", err, "none")
  /\ csettles' = csettles + 1
  /\ cpc' = "done"
  /\ UNCHANGED <<list, impl, op, citem, citemNil, cobject, cquery, clookup,
                 netlog, lookupResp>>
  /\ UNCHANGED notOps

\* .catch((err) => reject(err))
getContextInfoFailed(err) ==
  /\ cpc = "context"
  /\ cout' = Outcome("rejected", err, "none")
  /\ csettles' = csettles + 1
  /\ cpc' = "done"
  /\ UNCHANGED <<digest, list, impl, op, citem, citemNil, cobject, cquery,
                 clookup, netlog, lookupResp>>
  /\ UNCHANGED notOps

NextOps ==
  \/ \E i \in {"ListClient", "lib"}, a \in Args : addItem(i, a)
  \/ \E i \in {"ListClient", "lib"}, a \in Args : updateItem(i, a)
  \/ \E a \in Args : deleteItemById(a)
  \/ createList
  \/ callResolved
  \/ \E err \in TransportErrors : callRejected(err)
  \/ \E i \in {"ListClient", "lib"}, a \in Items, l \in Lookups : upsertItem(i, a, l)
  \/ upsertItemLookup
  \/ \E err \in TransportErrors : upsertItemLookupFailed(err)
  \/ upsertItemAdded
  \/ \E err \in TransportErrors : upsertItemAddFailed(err)
  \/ upsertItemUpdated
  \/ \E err \in TransportErrors : upsertItemUpdateFailed(err)
  \/ getContextInfo
  \/ \E formDigest \in FormDigestValues : getContextInfoResolved(formDigest)
  \/ \E err \in TransportErrors : getContextInfoFailed(err)

(***************************************************************************)
(* C5: when the lookup fetch of an upsertItem returned no record, the      *)
(* upsert has issued a create call whose body holds every field of the     *)
(* candidate except ID, whether or not the candidate carried an ID.        *)
(***************************************************************************)
C5_ZeroMatchesCreateWithoutID ==
  (op = "upsertItem" /\ lookupResp.got /\ Len(lookupResp.results) = 0)
    => /\ Len(netlog) = 2
       /\ netlog[2].op = "add"
       /\ netlog[2].body.ID = Absent
       /\ \A f \in Fields \ {"ID"} : netlog[2].body[f] = citem[f]

\* A candidate that carries an ID found no match and its create call went out.
C5_Witness ==
  /\ op = "upsertItem"
  /\ lookupResp.got
  /\ Len(lookupResp.results) = 0
  /\ citem.ID \in 1..MaxId
  /\ Len(netlog) = 2
  /\ netlog[2].op = "add"
  /\ cout.state = "resolved"

(***************************************************************************)
(* C6: when the lookup fetch returned one record M, the upsert has issued  *)
(* an update call addressed to M.ID, also when the candidate carries       *)
(* another ID, and the update body holds the candidate's field values.     *)
(***************************************************************************)
C6_OneMatchUpdatesMatchedID ==
  (op = "upsertItem" /\ lookupResp.got /\ Len(lookupResp.results) = 1)
    => /\ Len(netlog) = 2
       /\ netlog[2].op = "update"
       /\ netlog[2].id = lookupResp.results[1].ID
       /\ \A f \in Fields \ {"ID"} : netlog[2].body[f] = citem[f]

(***************************************************************************)
(* C9: a mutating ListClient operation called while X-RequestDigest is     *)
(* null or absent has failed with the authorization error and has handed   *)
(* no request to the HTTP client, the upsert's lookup fetch included.      *)
(***************************************************************************)
C9_ListClientMutationsNeedDigest ==
  (/\ impl = "ListClient"
   /\ op \in {"addItem", "updateItem", "deleteItemById", "upsertItem",
              "createList"}
   /\ digest \in {"absent", "null"})
    => /\ cpc = "done"
       /\ cout.state \in {"thrown", "rejected"}
       /\ cout.error = "AuthorizationError"
       /\ netlog = <<>>

\* upsertItem was called on a context whose token is null.
C9_Witness ==
  /\ impl = "ListClient"
  /\ op = "upsertItem"
  /\ digest = "null"
  /\ cout.error = "AuthorizationError"
  /\ netlog = <<>>

(***************************************************************************)
(* C10: a mutating lib/sharepoint.js operation (addItem, updateItem,       *)
(* upsertItem) called with authheaders holding no X-RequestDigest fails    *)
(* with an authorization error and issues no mutating request.             *)
(***************************************************************************)
C10_LibMutationsNeedDigest ==
  (/\ impl = "lib"
   /\ op \in {"addItem", "updateItem", "upsertItem"}
   /\ digest \in {"absent", "null"})
    => /\ cpc = "done"
       /\ cout.error = "AuthorizationError"
       /\ \A i \in DOMAIN netlog : netlog[i].op \notin MutatingRequests

(***************************************************************************)
(* lib/sharepoint.js upsertItems: one upsertItem per record, collected by  *)
(* Promise.all.                                                            *)
(***************************************************************************)
MaxBatch == 3

\* The records of a batch: not yet persisted, keyed by Title.
BatchItems == [ID : {Absent}, Title : TitleValues, Desc : {3}]

Batches == UNION {[1..n -> BatchItems] : n \in 1..MaxBatch}

\* The lookupitems of the batch: ['Title'], as the application passes.
BatchLookups == {[kind |-> "array", names |-> <<"Title">>]}

\* How a request of the batch fails.
BatchErrors == {"ResponseError"}

BatchLists == {{}, {[ID |-> 1, Title |-> 1, Desc |-> 4]}}

InitBulk ==
  /\ digest \in {"absent", "token"}
  /\ list \in BatchLists
  /\ bitems = <<>>
  /\ bobjects = <<>>
  /\ blookup = DefaultLookup
  /\ bpc = <<>>
  /\ berr = <<>>
  /\ blog = <<>>
  /\ batch = "idle"
  /\ batchErr = "none"
  /\ batchAt = 0

IdleCall ==
  /\ impl = "none"
  /\ op = "none"
  /\ citem = NoItem
  /\ citemNil = FALSE
  /\ cobject = NoItem
  /\ cquery = NoQuery
  /\ clookup = DefaultLookup
  /\ cpc = "idle"
  /\ netlog = <<>>
  /\ lookupResp = [got |-> FALSE, results |-> <<>>, error |-> "none"]
  /\ cout = Pending
  /\ csettles = 0
  /\ prev = NoPrev

\* The number of requests handed to the HTTP client so far.
RECURSIVE Issued(_, _)
Issued(log, n) == IF n = 0 THEN 0 ELSE Len(log[n]) + Issued(log, n - 1)

\* const lookupArray = _.isNil(lookupitems) ? [] : _.castArray(lookupitems)
batchLookupArray(lookup) ==
  IF lookup.kind \in {"undefined", "null"} THEN <<>> ELSE lookup.names

\* Faulty variant: only the first record's upsert is started; the others
\* wait in a queue.
upsertItems_OneAtATime(items, lookup) ==
  /\ batch = "idle"
  /\ cpc = "idle"
  /\ bitems' = items
  /\ bobjects' = items
  /\ blookup' = lookup
  /\ bpc' = [r \in DOMAIN items |-> IF r = 1 THEN "lookup" ELSE "queued"]
  /\ berr' = [r \in DOMAIN items |-> "none"]
  /\ blog' = [r \in DOMAIN items |->
                IF r = 1
                THEN <<Request("getItems", Absent, NoItem,
                               buildFilter(items[r], batchLookupArray(lookup)))>>
                ELSE <<>>]
  /\ batch' = "pending"
  /\ UNCHANGED <<batchErr, batchAt, digest, list>>
  /\ UNCHANGED notBulk

\* upsertItems(options, items, lookupitems): the forEach calls upsertItem for
\* every record, and each call runs to its await with its lookup fetch
\* handed to the HTTP client; then Promise.all(promises).
upsertItems(items, lookup) ==
  /\ batch = "idle"
  /\ cpc = "idle"       \* the model follows one call of the library at a time
  /\ bitems' = items
  /\ bobjects' = items
  /\ blookup' = lookup
  /\ bpc' = [r \in DOMAIN items |-> "lookup"]
  /\ berr' = [r \in DOMAIN items |-> "none"]
  /\ blog' = [r \in DOMAIN items |->
                <<Request("getItems", Absent, NoItem,
                          buildFilter(items[r], batchLookupArray(lookup)))>>]
  /\ batch' = "pending"
  /\ UNCHANGED <<batchErr, batchAt, digest, list>>
  /\ UNCHANGED notBulk

\* The promise of record r rejects; Promise.all rejects with the first
\* rejection and ignores the later ones.
RecordRejects(r, err) ==
  /\ bpc' = [bpc EXCEPT ![r] = "rejected"]
  /\ berr' = [berr EXCEPT ![r] = err]
  /\ IF batch = "pending"
     THEN batch' = "rejected" /\ batchErr' = err /\ batchAt' = Issued(blog, Len(blog))
     ELSE UNCHANGED <<batch, batchErr, batchAt>>

\* The promise of record r resolves; Promise.all resolves when all have.
RecordResolves(r) ==
  /\ bpc' = [bpc EXCEPT ![r] = "resolved"]
  /\ UNCHANGED berr
  /\ IF batch = "pending" /\ \A q \in DOMAIN bpc \ {r} : bpc[q] = "resolved"
     THEN batch' = "resolved" /\ batchAt' = Issued(blog, Len(blog)) /\ UNCHANGED batchErr
     ELSE UNCHANGED <<batch, batchErr, batchAt>>

\* The last request issued for record r.
RequestOf(r) == Last(blog[r])

\* Faulty variant: a record's continuation runs only while the batch has not
\* failed.
RecordAt_StopsWhenBatchFailed(r, pc) ==
  r \in DOMAIN bpc /\ bpc[r] = pc /\ batch # "rejected"

\* Record r's upsertItem is suspended at pc; nothing else gates it.
RecordAt(r, pc) == r \in DOMAIN bpc /\ bpc[r] = pc

\* The lookup fetch of record r resolved: the then-callback of upsertItem.
batchLookup(r) ==
  /\ RecordAt(r, "lookup")
  /\ LET results == QueryTop1(list, RequestOf(r).filter)
     IN  IF Len(results) = 0
         THEN /\ blog' = [blog EXCEPT ![r] =
                          Append(@, Request("add", Absent, omit(bitems[r]), {}))]
              /\ bpc' = [bpc EXCEPT ![r] = "adding"]
              /\ UNCHANGED <<berr, batch, batchErr, batchAt>>
         ELSE LET updateitem == merge(results[1].ID, bitems[r])
              IN  IF updateitem.ID \in {Absent, Null}
                  THEN RecordRejects(r, "ValidationError") /\ UNCHANGED blog
                  ELSE /\ blog' = [blog EXCEPT ![r] =
                                   Append(@, Request("update", updateitem.ID,
                                                     omit(updateitem), {}))]
                       /\ bpc' = [bpc EXCEPT ![r] = "updating"]
                       /\ UNCHANGED <<berr, batch, batchErr, batchAt>>
  /\ LET results == QueryTop1(list, RequestOf(r).filter)
     IN  bobjects' = [bobjects EXCEPT ![r] =
                        IF Len(results) = 0 THEN itemAfterOmit(@)
                        ELSE itemAfterMerge(results[1].ID, @)]
  /\ UNCHANGED <<bitems, blookup, digest, list>>
  /\ UNCHANGED notBulk

\* The lookup fetch of record r failed.
batchLookupFailed(r, err) ==
  /\ RecordAt(r, "lookup")
  /\ RecordRejects(r, err)
  /\ UNCHANGED <<bitems, bobjects, blookup, blog, digest, list>>
  /\ UNCHANGED notBulk

\* The create or update call of record r resolved.
batchMutated(r) ==
  /\ RecordAt(r, "adding") \/ RecordAt(r, "updating")
  /\ ServerAccepts(RequestOf(r))
  /\ list' = ServerApply(list, RequestOf(r))
  /\ RecordResolves(r)
  /\ UNCHANGED <<bitems, bobjects, blookup, blog, digest>>
  /\ UNCHANGED notBulk

\* The create or update call of record r failed.
batchMutationFailed(r, err) ==
  /\ RecordAt(r, "adding") \/ RecordAt(r, "updating")
  /\ RecordRejects(r, err)
  /\ UNCHANGED <<bitems, bobjects, blookup, blog, digest, list>>
  /\ UNCHANGED notBulk

\* Whatever continuation of record r is due.
RecordStep(r) ==
  \/ batchLookup(r)
  \/ \E err \in BatchErrors : batchLookupFailed(r, err)
  \/ batchMutated(r)
  \/ \E err \in BatchErrors : batchMutationFailed(r, err)

NextBulk ==
  \/ \E items \in Batches, l \in BatchLookups : upsertItems(items, l)
  \/ \E r \in 1..MaxBatch : batchLookup(r)
  \/ \E r \in 1..MaxBatch, err \in BatchErrors : batchLookupFailed(r, err)
  \/ \E r \in 1..MaxBatch : batchMutated(r)
  \/ \E r \in 1..MaxBatch, err \in BatchErrors : batchMutationFailed(r, err)

\* Record r's create or update call has been issued.
MutationIssued(r) ==
  \E i \in DOMAIN blog[r] : blog[r][i].op \in {"add", "update"}

(***************************************************************************)
(* C7: in a batch of 3 records in which record #2 failed and the other two *)
(* succeeded, the batch has settled with a result (2 successes, 1 failure) *)
(* and has not failed as a whole.                                          *)
(***************************************************************************)
C7_BatchReportsPerRecord ==
  (/\ Len(bitems) = 3
   /\ bpc[2] = "rejected"
   /\ berr[2] \in BatchErrors
   /\ bpc[1] = "resolved"
   /\ bpc[3] = "resolved")
    => batch = "resolved"

(***************************************************************************)
(* C8: once the batch has failed because one record's upsert failed, every *)
(* sibling record still runs to completion: its upsert eventually settles, *)
(* and when it settles without a failure its create or update call was     *)
(* performed.                                                              *)
(***************************************************************************)
C8_SiblingsRunToCompletion ==
  \A r \in 1..MaxBatch :
    []((r \in DOMAIN bpc /\ bpc[r] \in {"lookup", "adding", "updating"})
         => <>(/\ r \in DOMAIN bpc
               /\ bpc[r] \in {"resolved", "rejected"}
               /\ bpc[r] = "resolved" => MutationIssued(r)))

\* The batch failed when only the lookups had been issued, and a sibling's
\* create or update call was issued afterwards and completed.
C8_Witness ==
  /\ batch = "rejected"
  /\ batchAt = Len(bitems)
  /\ \E r \in DOMAIN bpc : bpc[r] = "resolved" /\ MutationIssued(r)

(***************************************************************************)
(* C11: an updateItem call on a record that carries an ID (and, for        *)
(* ListClient, with the token set) has issued exactly one update request,  *)
(* addressed to the record's ID, whose body has no ID and holds every      *)
(* other field of the record unchanged; no update request of any call      *)
(* carries an ID in its body.                                              *)
(***************************************************************************)
C11_UpdateBodyOmitsID ==
  /\ (/\ op = "updateItem"
      /\ ~citemNil
      /\ citem.ID \in 1..MaxId
      /\ (impl = "lib" \/ digest = "token"))
       => /\ Len(netlog) = 1
          /\ netlog[1].op = "update"
          /\ netlog[1].id = citem.ID
          /\ netlog[1].body.ID = Absent
          /\ \A f \in Fields \ {"ID"} : netlog[1].body[f] = citem[f]
  /\ \A i \in DOMAIN netlog :
       netlog[i].op = "update" => netlog[i].body.ID = Absent

\* updateItem of a record with an ID and two other fields was carried out.
C11_Witness ==
  /\ op = "updateItem"
  /\ citem.ID \in 1..MaxId
  /\ citem.Desc # Absent
  /\ Len(netlog) = 1
  /\ netlog[1].op = "update"
  /\ cout.state = "resolved"

(***************************************************************************)
(* C12: an upsertItem (of ListClient or of lib/sharepoint.js) whose create *)
(* or update call was dispatched and has completed resolved with that      *)
(* call's server response, never with an empty value, or rejected with     *)
(* that call's error.                                                      *)
(***************************************************************************)
C12_UpsertSettlesWithDispatchedCall ==
  (op = "upsertItem" /\ cpc = "done" /\ Len(netlog) = 2)
    => \/ /\ cout.state = "resolved"
          /\ cout.value = (IF netlog[2].op = "add" THEN "addResponse"
                           ELSE "updateResponse")
       \/ /\ cout.state = "rejected"
          /\ cout.error \in TransportErrors

(***************************************************************************)
(* callSharePointODATA: the request primitive of BaseClient and of         *)
(* lib/sharepoint.js, one invocation against an HTTP client.               *)
(***************************************************************************)
\* Header names of the authorization headers and of a request descriptor.
AuthHeaderNames == {"Cookie", "X-RequestDigest"}
DescriptorHeaderNames == {"Accept", "Cookie", "X-RequestDigest"}

\* The authorization headers of a context: any of the names, the digest
\* possibly stored as null (getContextInfo without a FormDigestValue).
AuthHeaders ==
  UNION {[names -> {"auth"}] : names \in SUBSET AuthHeaderNames}
  \cup {[h \in names |-> IF h = "X-RequestDigest" THEN "null" ELSE "auth"] :
          names \in {n \in SUBSET AuthHeaderNames : "X-RequestDigest" \in n}}

\* Request descriptors as gd-sprest's getInfo() returns them (url and data
\* are passed through unchanged and left out).
Descriptors ==
  UNION {[headers : [names -> {"desc"}], method : {"GET", "POST"}] :
           names \in SUBSET DescriptorHeaderNames}

NoDescriptor == [headers |-> <<>>, method |-> "GET"]

\* An error as the handlers see it: whether it has config and request (set
\* by axios on every error of a request it sent), whether it has a response,
\* and the response's status and body.
HttpError(name, config, response, status, data, code) ==
  [name |-> name, config |-> config, response |-> response, status |-> status,
   data |-> data, code |-> code]

NoError == HttpError("none", FALSE, FALSE, Absent, "none", "none")
TypeError == HttpError("TypeError", FALSE, FALSE, Absent, "none", "none")

\* Failures with a server response.
ResponseErrors ==
  {HttpError("Error", TRUE, TRUE, st, "body", "none") : st \in {404, 503}}

\* Failures without a server response: timeout, DNS, connection reset.
NoResponseErrors ==
  {HttpError("Error", TRUE, FALSE, Absent, "none", c) :
     c \in {"ECONNABORTED", "ENOTFOUND", "ECONNRESET"}}

\* An error that is not an axios error (thrown by an interceptor).
PlainErrors == {HttpError("Error", FALSE, FALSE, Absent, "none", "none")}

HttpErrors == ResponseErrors \cup NoResponseErrors \cup PlainErrors

\* isAxiosError(err): err.config != null && err.request != null
isAxiosError(err) == err.config

\* Faulty variant: the cleaned error drops the response.
getCleanedAxiosError_DropsResponse(err) ==
  IF ~isAxiosError(err) THEN [thrown |-> FALSE, error |-> err]
  ELSE IF ~err.response THEN [thrown |-> TRUE, error |-> TypeError]
  ELSE [thrown |-> FALSE,
        error |-> HttpError("Error", FALSE, FALSE, Absent, "none", err.code)]

\* getCleanedAxiosError(err): the error itself when it is not an axios
\* error; otherwise a new Error with code and response { data, status,
\* statusText }.  Destructuring err.response throws a TypeError when the
\* error has no response.
getCleanedAxiosError(err) ==
  IF ~isAxiosError(err) THEN [thrown |-> FALSE, error |-> err]
  ELSE IF ~err.response THEN [thrown |-> TRUE, error |-> TypeError]
  ELSE [thrown |-> FALSE,
        error |-> HttpError("Error", FALSE, TRUE, err.status, err.data,
                            err.code)]

\* Faulty variant: the descriptor's headers are spread last.
mergeHeaders_DescriptorWins(desc, auth) ==
  [h \in DOMAIN desc \cup DOMAIN auth |->
     IF h \in DOMAIN desc THEN desc[h] ELSE auth[h]]

\* headers: { ...sprequest.headers, ...authheaders }
mergeHeaders(desc, auth) ==
  [h \in DOMAIN desc \cup DOMAIN auth |->
     IF h \in DOMAIN auth THEN auth[h] ELSE desc[h]]

\* Faulty variant: a fresh id is generated for every request.
correlationOf_AlwaysFresh(id) == "uuid"

\* correlationid: correlationid || uuidv4()
correlationOf(id) == IF id \in {"undefined", ""} THEN "uuid" ELSE id

\* A default parameter value (axiosInstance = Axios) applies to undefined
\* only: null stays null.
defaultAxios(arg) == IF arg = "undefined" THEN "Axios" ELSE arg

axiosConfig(req, auth, id) ==
  [headers |-> mergeHeaders(req.headers, auth),
   method |-> IF req.method = "GET" THEN "get" ELSE "post",
   correlationid |-> correlationOf(id)]

InitOData ==
  /\ oImpl \in {"ListClient", "lib"}
  /\ axiosInstance = "undefined"
  /\ authheaders \in AuthHeaders
  /\ correlationid \in {"undefined", "", "ctx-id"}
  /\ sprequest = NoDescriptor
  /\ sent = <<>>
  /\ opc = "idle"
  /\ httpResult = [kind |-> "none", error |-> NoError]
  /\ oout = [state |-> "pending", error |-> NoError, value |-> "none"]
  /\ ounhandled = FALSE
  /\ libArg = "none"

\* callSharePointODATA(sprequest) up to the return of the promise: build
\* axiosConfig and hand it to the client.  With a null client the call of
\* .request throws inside the executor, which rejects the promise.
request(req, client) ==
  /\ opc = "idle"
  /\ sprequest' = req
  /\ axiosInstance' = client
  /\ IF defaultAxios(client) = "null"
     THEN /\ oout' = [state |-> "rejected", error |-> TypeError,
                      value |-> "none"]
          /\ opc' = "done"
          /\ UNCHANGED sent
     ELSE /\ sent' = Append(sent, axiosConfig(req, authheaders, correlationid))
          /\ opc' = "inflight"
          /\ UNCHANGED oout
  /\ UNCHANGED <<oImpl, authheaders, correlationid, httpResult, ounhandled>>
  /\ UNCHANGED notOData

\* The primitive called by the caller, with or without a client.
callSharePointODATA(req, client) ==
  /\ request(req, client)
  /\ UNCHANGED libArg

\* The default of the client parameter of the operations of
\* lib/sharepoint.js: (options, ..., axiosInstance = null).
libAxiosInstance(arg) == IF arg = "undefined" THEN "null" ELSE arg

\* An operation of lib/sharepoint.js (getItems, addItem, updateItem,
\* getContextInfo, ...): it builds its request descriptor and returns
\* callSharePointODATA(options, sprequest, axiosInstance).
libOperation(req, arg) ==
  /\ oImpl = "lib"
  /\ request(req, libAxiosInstance(arg))
  /\ libArg' = arg

\* .then((response) => resolve(...))
requestThen ==
  /\ opc = "inflight"
  /\ httpResult' = [kind |-> "response", error |-> NoError]
  /\ oout' = [state |-> "resolved", error |-> NoError, value |-> "response"]
  /\ opc' = "done"
  /\ UNCHANGED <<oImpl, axiosInstance, authheaders, correlationid, sprequest,
                 sent, ounhandled, libArg>>
  /\ UNCHANGED notOData

\* .catch((err) => reject(this.getCleanedAxiosError(err))) in BaseClient,
\* where a throw of getCleanedAxiosError leaves the handler before reject
\* is called; .catch((err) => reject(err)) in lib/sharepoint.js.
requestCatch(err) ==
  /\ opc = "inflight"
  /\ httpResult' = [kind |-> "error", error |-> err]
  /\ opc' = "done"
  /\ IF oImpl = "ListClient"
     THEN LET cleaned == getCleanedAxiosError(err)
          IN  IF cleaned.thrown
              THEN ounhandled' = TRUE /\ UNCHANGED oout
              ELSE /\ oout' = [state |-> "rejected", error |-> cleaned.error,
                               value |-> "none"]
                   /\ UNCHANGED ounhandled
     ELSE /\ oout' = [state |-> "rejected", error |-> err, value |-> "none"]
          /\ UNCHANGED ounhandled
  /\ UNCHANGED <<oImpl, axiosInstance, authheaders, correlationid, sprequest,
                 sent, libArg>>
  /\ UNCHANGED notOData

NextOData ==
  \/ \E req \in Descriptors, client \in {"client", "undefined", "null"} :
       callSharePointODATA(req, client)
  \/ \E req \in Descriptors, arg \in {"client", "undefined"} :
       libOperation(req, arg)
  \/ requestThen
  \/ \E err \in HttpErrors : requestCatch(err)

(***************************************************************************)
(* C13: once the HTTP call of a ListClient.callSharePointODATA has         *)
(* completed and its handler has run, the returned promise is settled: it  *)
(* is resolved on success, rejected with an error carrying the response's  *)
(* status and body on a failure with a response, and rejected with an      *)
(* error for that failure (its code) on a failure without a response.      *)
(***************************************************************************)
C13_EveryOutcomeSettles ==
  (oImpl = "ListClient" /\ opc = "done" /\ Len(sent) = 1)
    => /\ oout.state # "pending"
       /\ httpResult.kind = "response" => oout.state = "resolved"
       /\ (httpResult.kind = "error" /\ httpResult.error.response)
            => /\ oout.state = "rejected"
               /\ oout.error.response
               /\ oout.error.status = httpResult.error.status
               /\ oout.error.data = httpResult.error.data
       /\ (httpResult.kind = "error" /\ ~httpResult.error.response)
            => /\ oout.state = "rejected"
               /\ oout.error.code = httpResult.error.code

(***************************************************************************)
(* C14: in every request handed to the HTTP client, each header named in   *)
(* the context's authorization headers carries the authorization value,    *)
(* also when the descriptor supplies a header of that name, and every      *)
(* other descriptor header is kept.                                        *)
(***************************************************************************)
C14_AuthorizationHeadersWin ==
  \A i \in DOMAIN sent :
    /\ \A h \in DOMAIN authheaders : sent[i].headers[h] = authheaders[h]
    /\ \A h \in DOMAIN sprequest.headers \ DOMAIN authheaders :
         sent[i].headers[h] = sprequest.headers[h]
    /\ DOMAIN sent[i].headers = DOMAIN authheaders \cup DOMAIN sprequest.headers

\* A request went out whose descriptor named an authorization header and
\* another header.
C14_Witness ==
  /\ Len(sent) = 1
  /\ "Cookie" \in DOMAIN authheaders
  /\ "Cookie" \in DOMAIN sprequest.headers
  /\ "Accept" \in DOMAIN sprequest.headers
  /\ sent[1].headers["Cookie"] = "auth"

C15_AttemptsBoundedAndLoopEnds ==
  /\ [](invocations <= raxRetry + 1 /\ currentRetryAttempt <= raxRetry)
  /\ <>(rpc \in {"succeeded", "surfaced"})

\* A call that used all its attempts: retry + 1 invocations, error surfaced.
C15_Witness ==
  /\ raxRetry >= 2
  /\ invocations = raxRetry + 1
  /\ currentRetryAttempt = raxRetry
  /\ rpc = "surfaced"

(***************************************************************************)
(* C16: a failure that carries a server response with a retryable status   *)
(* is surfaced only when the attempt count has reached maxRetries: the     *)
(* maxNoResponseRetries cap does not stop its retries.                     *)
(***************************************************************************)
C16_NoResponseCapOnlyWithoutResponse ==
  (/\ rpc = "surfaced"
   /\ opErr.response
   /\ Retryable(opErr, opMethod))
    => currentRetryAttempt >= raxRetry

(***************************************************************************)
(* C17: a failure whose message says the response was not JSON is surfaced *)
(* only when the attempt count has reached one of the two caps, whatever   *)
(* the generic rule says about it; a failure that is neither non-JSON nor  *)
(* retryable by the generic rule is surfaced after a single invocation.    *)
(***************************************************************************)
C17_NonJsonRetriedOthersSurfaced ==
  /\ (rpc = "surfaced" /\ opErr.nonJson)
       => \/ currentRetryAttempt >= raxRetry
          \/ currentRetryAttempt >= raxNoResponseRetries
  /\ (/\ rpc \in {"request", "succeeded", "surfaced"}
      /\ invocations >= 1
      /\ opAlways \/ opK >= 1
      /\ ~opErr.nonJson
      /\ ~Retryable(opErr, opMethod))
       => (rpc = "surfaced" /\ invocations = 1 /\ currentRetryAttempt = 0)

\* A non-JSON failure of a POST, which the generic rule never retries, was
\* retried.
C17_Witness ==
  /\ opErr.nonJson
  /\ opMethod = "post"
  /\ invocations >= 2
  /\ currentRetryAttempt >= 1

(***************************************************************************)
(* C18: within one getAllItems call at most one page request is in flight  *)
(* (issued and not yet answered), and every request after the first was    *)
(* issued only when all earlier requests had been answered successfully.   *)
(***************************************************************************)
C18_OnePageRequestInFlight ==
  /\ Len(wrequests) - Len(served) \in {0, 1}
  /\ wpc = "awaiting" <=> Len(wrequests) = Len(served) + 1
  /\ \A n \in DOMAIN wrequests :
       \A m \in 1..(n - 1) : m \in DOMAIN served /\ served[m] = "ok"

\* The third page request is in flight after two answered pages.
C18_Witness ==
  /\ wpc = "awaiting"
  /\ Len(wrequests) = 3
  /\ Len(served) = 2

(***************************************************************************)
(* The read operations of ListClient: none of them checks the token.       *)
(***************************************************************************)
ReadOps == {"getItems", "getItemByTitle", "getListInfo", "getFields"}
ReadRequests == {"getItems", "getList", "getFields"}

\* The Filter of a query, as a set of equalities.
Filters == {{}} \cup {{<<"Title", t>>} : t \in TitleValues}

\* The title argument of getItemByTitle: undefined, null or a title.
Titles == {Absent, Null} \cup TitleValues

TitleArg(title) ==
  [item |-> [NoItem EXCEPT !.Title = title], nil |-> title \in {Absent, Null}]

\* The query descriptors passed to getItems.
Queries == [Filter : Filters, Select : Selects]

\* "ensure ID always in select filter": filter.Select = [...new Set([filter.Select])]
\* when the Select has elements.  The Set is built from a one-element array
\* whose element is the Select array, so the result is that array wrapped
\* in an array.
selectOfQuery(select) ==
  IF Len(select) > 0 THEN <<SelectArray(select)>>
  ELSE [j \in DOMAIN select |-> SelectName(select[j])]

\* The items query issued for a descriptor (Top, Expand and the other
\* options are passed through and left out).
ItemsQuery(itemFilter) ==
  [Request("getItems", Absent, NoItem, itemFilter.Filter)
     EXCEPT !.select = selectOfQuery(itemFilter.Select)]

\* Faulty variant: getItems checks the token like a write operation.
getItems_RequiresDigest(i, itemFilter) ==
  /\ CalledWith(i, "getItems", NoArg, DefaultLookup, itemFilter)
  /\ IF digestIsNil(digest)
     THEN Fails("thrown", "AuthorizationError")
     ELSE Issues(ItemsQuery(itemFilter), "call")
  /\ cobject' = NoItem

\* ListClient.getItems(itemFilter) / lib getItems(options, sharepointquery)
getItems(i, itemFilter) ==
  /\ CalledWith(i, "getItems", NoArg, DefaultLookup, itemFilter)
  /\ Issues(ItemsQuery(itemFilter), "call")
  /\ cobject' = NoItem

\* ListClient.getItemByTitle(title)
getItemByTitle(title) ==
  /\ Called("ListClient", "getItemByTitle", TitleArg(title), DefaultLookup)
  /\ IF title \in {Absent, Null}
     THEN Fails("thrown", "ValidationError")
     ELSE Issues(Request("getItems", Absent, NoItem, {<<"Title", title>>}),
                 "call")
  /\ cobject' = NoItem

\* ListClient.getListInfo(includeFields): the Expand of the query is not
\* part of the request record.
getListInfo(includeFields) ==
  /\ Called("ListClient", "getListInfo", NoArg, DefaultLookup)
  /\ Issues(Request("getList", Absent, NoItem, {}), "call")
  /\ cobject' = NoItem

\* ListClient.getFields(filter)
getFields(filter) ==
  /\ Called("ListClient", "getFields", NoArg, DefaultLookup)
  /\ Issues(Request("getFields", Absent, NoItem, filter), "call")
  /\ cobject' = NoItem

NextReads ==
  \/ \E i \in {"ListClient", "lib"}, q \in Queries : getItems(i, q)
  \/ \E t \in Titles : getItemByTitle(t)
  \/ \E b \in BOOLEAN : getListInfo(b)
  \/ \E f \in Filters : getFields(f)
  \/ callResolved
  \/ \E err \in TransportErrors : callRejected(err)
  \/ getAllItems
  \/ getAllItemsPage
  \/ \E err \in TransportErrors : getAllItemsCatch(err)

(***************************************************************************)
(* C20: a read operation of ListClient (getItems, getItemByTitle with a    *)
(* title, getListInfo, getFields, getAllItems) has issued its request      *)
(* whatever the X-RequestDigest token is, is never refused for the missing *)
(* token, and resolves with the response when its request succeeds.        *)
(***************************************************************************)
C20_ReadsWorkWithoutDigest ==
  /\ (impl = "ListClient" /\ op \in ReadOps
      /\ ~(op = "getItemByTitle" /\ citemNil))
       => /\ Len(netlog) = 1
          /\ netlog[1].op \in ReadRequests
          /\ cout.error \in {"none"} \cup TransportErrors
          /\ cpc \in {"call", "done"}
          /\ (cpc = "done" /\ cout.state # "rejected")
               => (cout.state = "resolved" /\ cout.value = "response")
  /\ (wImpl = "ListClient" /\ wpc # "idle")
       => /\ Len(wrequests) >= 1
          /\ werror \in {"none", "TypeError"} \cup TransportErrors
          /\ wpc = "rejected" => werror # "none"

\* Without the token, getItems issued its request and resolved with the
\* response.
C20_Witness ==
  /\ digest = "absent"
  /\ impl = "ListClient"
  /\ op = "getItems"
  /\ Len(netlog) = 1
  /\ cout.state = "resolved"
  /\ cout.value = "response"

(***************************************************************************)
(* The operations that are handed records of the caller.                   *)
(***************************************************************************)
NextRecords ==
  \/ \E i \in {"ListClient", "lib"}, a \in Args : addItem(i, a)
  \/ \E i \in {"ListClient", "lib"}, a \in Args : updateItem(i, a)
  \/ callResolved
  \/ \E err \in TransportErrors : callRejected(err)
  \/ \E i \in {"ListClient", "lib"}, a \in Items, l \in Lookups : upsertItem(i, a, l)
  \/ upsertItemLookup
  \/ \E err \in TransportErrors : upsertItemLookupFailed(err)
  \/ upsertItemAdded
  \/ \E err \in TransportErrors : upsertItemAddFailed(err)
  \/ upsertItemUpdated
  \/ \E err \in TransportErrors : upsertItemUpdateFailed(err)
  \/ \E items \in Batches, l \in BatchLookups : upsertItems(items, l)
  \/ \E r \in 1..MaxBatch : batchLookup(r)
  \/ \E r \in 1..MaxBatch, err \in BatchErrors : batchLookupFailed(r, err)
  \/ \E r \in 1..MaxBatch : batchMutated(r)
  \/ \E r \in 1..MaxBatch, err \in BatchErrors : batchMutationFailed(r, err)

C22_SelectIncludesID ==
  (op = "getItems" /\ Len(cquery.Select) > 0 /\ Len(netlog) = 1)
    => LET sel == netlog[1].select
           names == {sel[j].name : j \in {k \in DOMAIN sel : ~sel[k].isArray}}
       IN  /\ \A j \in DOMAIN sel : ~sel[j].isArray
           /\ "ID" \in names
           /\ \A j \in DOMAIN cquery.Select : cquery.Select[j] \in names

(***************************************************************************)
(* C23: the only step that changes the context's X-RequestDigest token is  *)
(* the successful completion of getContextInfo; no other ListClient or     *)
(* library operation step changes it, and a getContextInfo that fails      *)
(* leaves it as it was.                                                    *)
(***************************************************************************)
C23_TokenWrittenOnlyByGetContextInfo ==
  [][digest' # digest
       => /\ op = "getContextInfo"
          /\ cpc = "context"
          /\ cout'.state = "resolved"]_vars

\* A getContextInfo failed on a context that holds a token: the token stays.
C23_Witness ==
  /\ op = "getContextInfo"
  /\ cpc = "done"
  /\ cout.state = "rejected"
  /\ digest = "token"

(***************************************************************************)
(* C24: a call with a caller-input error (updateItem with a missing item   *)
(* or a null/absent ID, ListClient.addItem with a missing item,            *)
(* deleteItemById with a null id) that passes the token check ends with    *)
(* the validation error and without any request having been issued.        *)
(***************************************************************************)
C24_InvalidInput ==
  \/ op = "addItem" /\ impl = "ListClient" /\ citemNil
  \/ op = "updateItem" /\ (citemNil \/ citem.ID \in {Absent, Null})
  \/ op = "deleteItemById" /\ citem.ID \in {Absent, Null}

C24_ValidationBeforeNetwork ==
  (C24_InvalidInput /\ (impl = "ListClient" => ~digestIsNil(digest)))
    => /\ cpc = "done"
       /\ cout.state = "thrown"
       /\ cout.error = "ValidationError"
       /\ netlog = <<>>

(***************************************************************************)
(* C25: in every state of a getAllItems walk the accumulator, and at the   *)
(* end the result, is an order-preserving subsequence of the               *)
(* concatenation of the pages received so far: only records some page      *)
(* returned, in server-return order.                                       *)
(***************************************************************************)
RECURSIVE IsSubsequence(_, _)
IsSubsequence(s, t) ==
  IF s = <<>> THEN TRUE
  ELSE IF t = <<>> THEN FALSE
  ELSE IF Head(s) = Head(t) THEN IsSubsequence(Tail(s), Tail(t))
  ELSE IsSubsequence(s, Tail(t))

\* The pages the walk has received so far.
Received ==
  SubSeq(pages, 1, Cardinality({i \in DOMAIN served : served[i] = "ok"}))

C25_AggregateIsSubsequenceOfPages ==
  /\ IsSubsequence(allrecords, Concat(Received))
  /\ wpc = "resolved" => IsSubsequence(wresult, Concat(Received))

\* A walk over several non-empty pages has resolved with several records.
C25_Witness ==
  /\ wpc = "resolved"
  /\ Len(served) >= 2
  /\ \A i \in DOMAIN pages : Len(pages[i]) >= 2
  /\ Len(wresult) >= 3

(***************************************************************************)
(* C26: once upsertItems has been called, the lookup fetch of every record *)
(* of the batch has been issued, whatever the other records' upserts have  *)
(* done so far: every upsert is started before any of them is waited for,  *)
(* so all the lookups can be in flight together.                           *)
(***************************************************************************)
C26_EveryUpsertStartedBeforeWaiting ==
  batch # "idle" =>
    \A r \in DOMAIN bitems :
      /\ r \in DOMAIN blog
      /\ Len(blog[r]) >= 1
      /\ blog[r][1].op = "getItems"

\* The lookups of all the records of a full batch are in flight together.
C26_Witness ==
  /\ batch = "pending"
  /\ Len(bitems) >= 3
  /\ \A r \in DOMAIN bitems : bpc[r] = "lookup" /\ Len(blog[r]) = 1

(***************************************************************************)
(* C27: every request of a walk after the first carries as its cursor the  *)
(* ID of the last record returned so far (the last record of the page just *)
(* received, or of an earlier page when that page was empty); no request   *)
(* is issued after pages that returned no record at all.                   *)
(***************************************************************************)
C27_CursorIsLastRecordReturned ==
  \A i \in 2..Len(wrequests) :
    LET got == Concat(SubSeq(pages, 1, i - 1))
    IN  /\ got # <<>>
        /\ wrequests[i] = got[Len(got)]

(***************************************************************************)
(* C28: an upsertItem call that passes the token check issues its lookup   *)
(* fetch first and only once, then at most one mutating call, a create or  *)
(* an update; when the lookup matched nothing, no update call has been     *)
(* issued, during and after the create, whether it succeeds or fails.      *)
(***************************************************************************)
C28_OneLookupThenAtMostOneMutation ==
  (op = "upsertItem" /\ (impl = "ListClient" => ~digestIsNil(digest)))
    => /\ Len(netlog) \in {1, 2}
       /\ netlog[1].op = "getItems"
       /\ Len(netlog) = 2 => netlog[2].op \in {"add", "update"}
       /\ (lookupResp.got /\ lookupResp.results = <<>>)
            => \A i \in DOMAIN netlog : netlog[i].op # "update"

\* ListClient.upsertItem found no match, and its create call has completed.
C28_Witness ==
  /\ op = "upsertItem"
  /\ impl = "ListClient"
  /\ cpc = "done"
  /\ lookupResp.got
  /\ lookupResp.results = <<>>
  /\ Len(netlog) = 2
  /\ netlog[2].op = "add"
  /\ cout.state = "resolved"

CreateIssued(r) ==
  r \in DOMAIN blog /\ \E i \in DOMAIN blog[r] : blog[r][i].op = "add"

C30_AtMostOneCreatePerKey ==
  /\ \A r, q \in DOMAIN bitems :
       (r # q /\ bitems[r].Title = bitems[q].Title)
         => ~(CreateIssued(r) /\ CreateIssued(q))
  /\ \A x, y \in list : x.Title = y.Title => x = y

(***************************************************************************)
(* Two upsertItem calls in sequence, keyed by Title as the application     *)
(* keys its records.                                                       *)
(***************************************************************************)
TitleLookup == [kind |-> "array", names |-> <<"Title">>]

\* The candidate records of the sequence.
TwiceItems == [ID : {Absent} \cup 1..MaxId, Title : TitleValues, Desc : {3}]

NextUpsertTwice ==
  \/ \E i \in {"ListClient", "lib"}, a \in TwiceItems :
       upsertItem(i, a, TitleLookup)
  \/ upsertItemLookup
  \/ \E err \in TransportErrors : upsertItemLookupFailed(err)
  \/ upsertItemAdded
  \/ \E err \in TransportErrors : upsertItemAddFailed(err)
  \/ upsertItemUpdated
  \/ \E err \in TransportErrors : upsertItemUpdateFailed(err)
  \/ nextCall

\* The first call of the sequence found no match and its create succeeded;
\* the present call is the same upsert again and its lookup was answered.
C31_SecondOfTwo ==
  /\ op = "upsertItem"
  /\ prev.op = "upsertItem"
  /\ prev.impl = impl
  /\ prev.item = citem
  /\ prev.lookup = clookup
  /\ prev.resp.got
  /\ prev.resp.results = <<>>
  /\ prev.out.state = "resolved"
  /\ lookupResp.got

(***************************************************************************)
(* C31: when upsertItem is run twice in sequence with the same record and  *)
(* lookup field, the first call having found no match and created the      *)
(* record, the second call issues no create but an update addressed to the *)
(* ID of the record the first call created, and the list holds exactly one *)
(* record with the candidate's key.                                        *)
(***************************************************************************)
C31_SecondUpsertUpdatesCreatedRecord ==
  C31_SecondOfTwo =>
    LET keyed == {r \in list : r.Title = citem.Title}
    IN  /\ Cardinality(keyed) = 1
        /\ Len(netlog) = 2
        /\ netlog[2].op = "update"
        /\ \A r \in keyed : netlog[2].id = r.ID

(***************************************************************************)
(* C32: whenever an upsertItem has issued an update, its lookup had at     *)
(* least one field to compare and the record the lookup returned has the   *)
(* candidate's value in every lookup field: with a lookup list that is     *)
(* null, empty or holds only null names no update is issued.               *)
(***************************************************************************)
C32_UpdateOnlyOnKeyMatch ==
  (op = "upsertItem" /\ \E i \in DOMAIN netlog : netlog[i].op = "update")
    => LET key == lookupFilter(impl, citem, clookup)
       IN  /\ key # {}
           /\ \A p \in key : lookupResp.results[1][p[1]] = citem[p[1]]

(***************************************************************************)
(* C33: when every page request settles and the stub signals completion on *)
(* its last page, every getAllItems walk eventually resolves or rejects,   *)
(* and at no time has it issued more requests than the stub has pages: at  *)
(* most one request per page and none after the page that signalled        *)
(* completion.                                                             *)
(***************************************************************************)
C33_WalkTerminates ==
  /\ <>(wpc \in {"resolved", "rejected"})
  /\ [](Len(wrequests) <= Len(pages))
  /\ [](wpc = "resolved" => Len(wrequests) = Len(served))

\* A walk over as many pages as the stub can hold has resolved on the last.
C33_Witness ==
  /\ wpc = "resolved"
  /\ Len(pages) >= 3
  /\ Len(served) = Len(pages)
  /\ Len(wrequests) = Len(pages)

(***************************************************************************)
(* A session on one ListClient context: getContextInfo and the mutating    *)
(* operations, two calls in sequence.                                      *)
(***************************************************************************)
NextSession ==
  \/ getContextInfo
  \/ \E formDigest \in FormDigestValues : getContextInfoResolved(formDigest)
  \/ \E err \in TransportErrors : getContextInfoFailed(err)
  \/ nextCall
  \/ \E a \in Args : addItem("ListClient", a)
  \/ \E a \in Args : updateItem("ListClient", a)
  \/ \E a \in Args : deleteItemById(a)
  \/ createList
  \/ callResolved
  \/ \E err \in TransportErrors : callRejected(err)

(***************************************************************************)
(* C34: once getContextInfo has resolved, the context's token is set (not  *)
(* null, not missing), also when the context held a token before, and the  *)
(* mutating call made next on the context passes the write-authorization   *)
(* check.                                                                  *)
(***************************************************************************)
C34_ResolvedInitEnablesWrites ==
  /\ (op = "getContextInfo" /\ cout.state = "resolved") => digest = "token"
  /\ (prev.op = "getContextInfo" /\ prev.out.state = "resolved")
       => /\ digest = "token"
          /\ cout.error # "AuthorizationError"

(***************************************************************************)
(* C35: an operation of lib/sharepoint.js called without an HTTP client    *)
(* argument has handed its request to the default Axios client, as the     *)
(* primitive does when called without one, and has not failed for want of  *)
(* a client.                                                               *)
(***************************************************************************)
C35_LibOperationDefaultsClient ==
  libArg = "undefined"
    => /\ Len(sent) = 1
       /\ defaultAxios(axiosInstance) = "Axios"
       /\ ~(oout.state = "rejected" /\ oout.error = TypeError)

(***************************************************************************)
(* Two getAllItems walks in sequence with the same descriptor object.      *)
(***************************************************************************)
NextWalkTwice ==
  \/ getAllItems
  \/ getAllItemsPage
  \/ \E err \in TransportErrors : getAllItemsCatch(err)
  \/ getAllItemsAgain

(***************************************************************************)
(* C36: during and after a getAllItems walk, resolved or rejected, the     *)
(* caller's query descriptor has the fields it was passed with (no cursor  *)
(* written on it), and a second walk with the same descriptor starts with  *)
(* the request the first walk started with: from the first page.           *)
(***************************************************************************)
C36_DescriptorUntouched ==
  /\ wdescriptor = [Custom |-> Null]
  /\ wfirst # <<>> => wrequests[1] = wfirst[1]

\* A first walk derived cursors and settled; a second walk with the same
\* descriptor has derived a cursor too.
C36_Witness ==
  /\ Len(wfirst) >= 2
  /\ Len(wrequests) >= 2
  /\ wpc = "resolved"

(***************************************************************************)
(* Specifications.                                                         *)
(***************************************************************************)
\* A component that is not the subject of a specification stays as constructed.
IdleWalk ==
  /\ wImpl = "ListClient"
  /\ pages = <<>>
  /\ served = <<>>
  /\ wpc = "idle"
  /\ wrequests = <<>>
  /\ allrecords = <<>>
  /\ lastId = Null
  /\ custom = Null
  /\ wresult = <<>>
  /\ werror = "none"
  /\ wsettles = 0
  /\ wdescriptor = [Custom |-> Null]
  /\ wfirst = <<>>

IdleRetry ==
  /\ raxRetry = DefaultRetry
  /\ raxNoResponseRetries = DefaultNoResponseRetries
  /\ currentRetryAttempt = 0
  /\ opMethod = "get"
  /\ opErr = NoErr
  /\ opAlways = FALSE
  /\ opK = 0
  /\ invocations = 0
  /\ rpc = "idle"
  /\ rerror = NoErr

IdleOps == digest = "absent" /\ list = {} /\ IdleCall

IdleBulk ==
  /\ bitems = <<>>
  /\ bobjects = <<>>
  /\ blookup = DefaultLookup
  /\ bpc = <<>>
  /\ berr = <<>>
  /\ blog = <<>>
  /\ batch = "idle"
  /\ batchErr = "none"
  /\ batchAt = 0

IdleOData ==
  /\ oImpl = "ListClient"
  /\ axiosInstance = "undefined"
  /\ authheaders = <<>>
  /\ correlationid = "undefined"
  /\ sprequest = NoDescriptor
  /\ sent = <<>>
  /\ opc = "idle"
  /\ httpResult = [kind |-> "none", error |-> NoError]
  /\ oout = [state |-> "pending", error |-> NoError, value |-> "none"]
  /\ ounhandled = FALSE
  /\ libArg = "none"

InitSpecWalk == InitWalk /\ IdleRetry /\ IdleOps /\ IdleBulk /\ IdleOData

InitSpecRetry == IdleWalk /\ InitRetry /\ IdleOps /\ IdleBulk /\ IdleOData

InitSpecOps == IdleWalk /\ IdleRetry /\ InitOps /\ IdleBulk /\ IdleOData

SpecWalk == InitSpecWalk /\ [][NextWalk]_vars

\* The call is made, and every page request settles: the HTTP client answers
\* or fails each request (each has a timeout).
SpecWalkFair == InitSpecWalk /\ [][NextWalk]_vars /\ WF_vars(NextWalk)

\* Two walks in sequence with one descriptor object.
SpecWalkTwice == InitSpecWalk /\ [][NextWalkTwice]_vars

SpecRetry == InitSpecRetry /\ [][NextRetry]_vars

SpecOps == InitSpecOps /\ [][NextOps]_vars

InitSpecBulk == IdleWalk /\ IdleRetry /\ IdleCall /\ InitBulk /\ IdleOData

SpecBulk == InitSpecBulk /\ [][NextBulk]_vars

\* Every response arrives (each request has a timeout) and the event loop
\* runs every continuation that is due.
SpecBulkFair ==
  /\ InitSpecBulk
  /\ [][NextBulk]_vars
  /\ \A r \in 1..MaxBatch : WF_vars(RecordStep(r))

InitSpecOData == IdleWalk /\ IdleRetry /\ IdleOps /\ IdleBulk /\ InitOData

SpecOData == InitSpecOData /\ [][NextOData]_vars

\* The client answers every request it was handed and the interceptor runs
\* on every failure.
SpecRetryFair == InitSpecRetry /\ [][NextRetry]_vars /\ WF_vars(NextRetry)

\* The read operations of ListClient, the page walk included, on a context
\* with or without the write-authorization token.
InitSpecReads ==
  /\ InitWalk
  /\ IdleRetry
  /\ digest \in {"absent", "null", "token"}
  /\ list = {}
  /\ IdleCall
  /\ IdleBulk
  /\ IdleOData

SpecReads == InitSpecReads /\ [][NextReads]_vars

\* The operations that take caller-supplied records: the single-record
\* operations of ListClient and lib/sharepoint.js and the bulk upsert.
InitSpecRecords ==
  /\ IdleWalk
  /\ IdleRetry
  /\ digest \in {"absent", "token"}
  /\ list \in BatchLists
  /\ IdleCall
  /\ IdleBulk
  /\ IdleOData

SpecRecords == InitSpecRecords /\ [][NextRecords]_vars

\* Two upserts in sequence on one context, on a list that holds no record or
\* one record.
InitSpecUpsertTwice ==
  /\ IdleWalk
  /\ IdleRetry
  /\ digest \in {"absent", "token"}
  /\ list \in BatchLists
  /\ IdleCall
  /\ IdleBulk
  /\ IdleOData

SpecUpsertTwice == InitSpecUpsertTwice /\ [][NextUpsertTwice]_vars

\* A ListClient context, with or without a token, used for two calls.
InitSpecSession ==
  /\ IdleWalk
  /\ IdleRetry
  /\ digest \in {"absent", "null", "token"}
  /\ list \in BatchLists
  /\ IdleCall
  /\ IdleBulk
  /\ IdleOData

SpecSession == InitSpecSession /\ [][NextSession]_vars

====
